---- MODULE Spec2Model ----
(***************************************************************************)
(* State-machine model of the workshop ("taller") API of src/index.js:     *)
(* the DynamoDB table Talleres, the S3 bucket, and the HTTP requests in    *)
(* flight, each advancing one awaited storage call at a time.              *)
(***************************************************************************)
EXTENDS Integers, Sequences, FiniteSets, TLC

\* Number of HTTP requests one run receives.
MaxReq == 3
\* Keys one listObjectsV2 page holds (1000 in S3; scaled down so that a
\* truncated listing is reachable with MaxReq requests).
PageSize == 1
\* Storage calls (S3 or DynamoDB) that are rejected in one run.
MaxFail == 1
\* Number of AddSlide requests one run of SpecSlides receives.
MaxAdds == 3
\* Items one dynamoDB.scan call returns (1 MB of data in DynamoDB; scaled down so
\* that a table larger than one scan page is reachable with MaxReq requests).
ScanPage == 1

VARIABLES
  Talleres,   \* the DynamoDB table: tallerId -> Item
  bucket,     \* the S3 bucket: the set of object keys stored
  reqs        \* the HTTP requests: request number -> its frame (locals, pc, response)

vars == <<Talleres, bucket, reqs>>

\* The request numbers of the run.
Reqs == DOMAIN reqs

\* ---------------------------------------------------------------- values

\* JavaScript null / an absent optional: the empty tuple; present values that
\* may be null are tuples too (URLs), optional records are sets of 0 or 1 element.
Null == <<>>

\* req.body fields: '' (or an absent field) is falsy in the handlers' checks.
Nombres == {"", "n"}
TallerDescripciones == {"", "d"}
SlideDescripciones == {"", "a"}

\* uuidv4(): a fresh value per call. A request calls it at most once per kind of
\* name (tallerId, file name, slide id), so the request number stands for it.
uuidv4(r) == r

\* `talleres/${tallerId}/`
carpetaS3(tallerId) == <<"talleres", tallerId>>

\* `talleres/${tallerId}/portada-${uuidv4()}${ext}`
portadaKey(tallerId, r) == carpetaS3(tallerId) \o <<"portada", uuidv4(r)>>

\* `talleres/${tallerId}/slide-${uuidv4()}${ext}`
imagenKey(tallerId, r) == carpetaS3(tallerId) \o <<"slide", uuidv4(r)>>

\* s3.upload(...).promise() resolves with the object's URL in Location.
Location(key) == <<"https", "bucket">> \o key

\* The key a Location names (the URL minus scheme and bucket host).
KeyOfLocation(url) == SubSeq(url, 3, Len(url))

HasPrefix(key, prefix) ==
  /\ Len(key) >= Len(prefix)
  /\ SubSeq(key, 1, Len(prefix)) = prefix

\* `Paso ${n}`
titulo(n) == <<"Paso", n>>

\* new Date().toISOString(): the instant is identified by the request reading the clock.
Now(r) == <<"t", r>>

\* ---------------------------------------------------------------- S3

KeysUnder(b, prefix) == {k \in b : HasPrefix(k, prefix)}

\* S3 lists keys in ascending byte order: "portada-..." before "slide-...",
\* same names by their uuid.
KeyBefore(k1, k2) ==
  \/ k1[3] = "portada" /\ k2[3] = "slide"
  \/ k1[3] = k2[3] /\ k1[4] < k2[4]

\* A listing that ignores its Prefix and pages through the whole bucket.
listObjectsV2NoPrefix(b, prefix) ==
  LET page == {k \in b : Cardinality({j \in b : j[2] < k[2] \/ (j[2] = k[2] /\ KeyBefore(j, k))})
                           < PageSize}
  IN [Contents |-> page, IsTruncated |-> Cardinality(b) > PageSize]

\* s3.listObjectsV2({Bucket, Prefix}): one page of at most PageSize keys, the
\* first ones in key order, and IsTruncated when more keys remain.
listObjectsV2(b, prefix) ==
  LET all == KeysUnder(b, prefix)
      page == {k \in all : Cardinality({j \in all : KeyBefore(j, k)}) < PageSize}
  IN [Contents |-> page, IsTruncated |-> Cardinality(all) > PageSize]

\* A deleteObjects that removes nothing.
deleteObjectsNothing(b, keys) == b

\* A deleteObjects that empties the folders of the keys it is given.
deleteObjectsFolder(b, keys) == {k \in b : \A j \in keys : k[2] # j[2]}

\* s3.deleteObjects({Bucket, Delete: {Objects}})
deleteObjects(b, keys) == b \ keys

\* s3.upload({Bucket, Key, Body, ContentType})
upload(b, key) == b \cup {key}

\* ---------------------------------------------------------------- DynamoDB

\* dynamoDB.get({TableName, Key: {id}}): Item, or no Item.
dynamoGet(t, id) == IF id \in DOMAIN t THEN {t[id]} ELSE {}

\* dynamoDB.put({TableName, Item}): unconditional insert / overwrite.
dynamoPut(t, item) == (item.id :> item) @@ t

\* dynamoDB.delete({TableName, Key: {id}}): no error when the key is absent.
dynamoDelete(t, id) == [i \in DOMAIN t \ {id} |-> t[i]]

\* UpdateItem with 'SET slides = :nuevo_slide, updatedAt = :updatedAt' and no
\* ConditionExpression: edits the item, or adds a new item holding the key and
\* the SET attributes when the key is absent.
dynamoUpdateSet(t, id, nuevo, updatedAt) ==
  LET old == IF id \in DOMAIN t THEN t[id] ELSE [id |-> id]
  IN (id :> (("slides" :> nuevo) @@ ("updatedAt" :> updatedAt) @@ old)) @@ t

\* 'SET slides = list_append(slides, :nuevo_slide), ...' is rejected with a
\* ValidationException when the item (or its slides attribute) does not exist.
listAppendValid(t, id) == id \in DOMAIN t /\ "slides" \in DOMAIN t[id]

dynamoUpdateListAppend(t, id, nuevo, updatedAt) ==
  (id :> (("slides" :> (t[id].slides \o nuevo)) @@ ("updatedAt" :> updatedAt) @@ t[id])) @@ t

\* ---------------------------------------------------------------- requests

NoReq ==
  [kind |-> "none", tallerId |-> 0, nombre |-> "", descripcion |-> "", file |-> FALSE,
   pc |-> "none", status |-> 0, error |-> "", item |-> {}, url |-> Null,
   slide |-> {}, listed |-> {}, truncated |-> FALSE, body |-> {}]

Init ==
  /\ Talleres = <<>>
  /\ bucket = {}
  /\ reqs = [r \in 1..MaxReq |-> NoReq]

Started == {r \in Reqs : reqs[r].kind # "none"}
InFlight == {r \in Started : reqs[r].status = 0}

\* The next request to arrive takes the next request number.
Arrives(r) == r \in Reqs /\ reqs[r].kind = "none" /\ \A q \in 1..(r - 1) : reqs[q].kind # "none"

\* A request at an await: pc names the storage call it is waiting on.
At(r, kind, pc) == r \in Reqs /\ reqs[r].kind = kind /\ reqs[r].pc = pc /\ reqs[r].status = 0

\* Ids a client can name: a tallerId an earlier POST /talleres generated, or one
\* that was never issued (0).
KnownIds == {0} \cup {reqs[r].tallerId : r \in {q \in Started : reqs[q].kind = "create"}}

\* Storage calls that have been rejected so far (network or service errors).
Rejected == {r \in Started : reqs[r].error \in {"S3Error", "DynamoError"}}

\* The outcomes a storage call may have: it succeeds, or (at most MaxFail times in
\* a run) it is rejected.
Outcomes == IF Cardinality(Rejected) < MaxFail THEN BOOLEAN ELSE {TRUE}

\* The catch blocks: res.status(500).json({error, details: error.message}).
Catch(r, error) == [reqs EXCEPT ![r].status = 500, ![r].error = error]

\* ---------------------------------------------------------------- POST /talleres

\* A validation that forgets the portada check.
createValidNoPortada(nombre, descripcion, portada) == nombre # "" /\ descripcion # ""

\* if (!nombre || !descripcion) 400; if (!portada) 400
createValid(nombre, descripcion, portada) == nombre # "" /\ descripcion # "" /\ portada

\* An Item built without its slides attribute.
tallerItemNoSlides(tallerId, nombre, descripcion, portadaUrl, createdAt) ==
  [id |-> tallerId, nombre |-> nombre, descripcion |-> descripcion, duracion |-> Null,
   nivelDificultad |-> "FACIL", portadaUrl |-> portadaUrl,
   carpetaS3 |-> carpetaS3(tallerId), createdAt |-> createdAt]

\* The Item of tallerParams. The optional form fields are taken as not sent:
\* duracion || null, nivelDificultad || 'FÁCIL'.
tallerItem(tallerId, nombre, descripcion, portadaUrl, createdAt) ==
  [id |-> tallerId, nombre |-> nombre, descripcion |-> descripcion, duracion |-> Null,
   nivelDificultad |-> "FACIL", portadaUrl |-> portadaUrl,
   carpetaS3 |-> carpetaS3(tallerId), createdAt |-> createdAt, slides |-> <<>>]

\* The 201 body of POST /talleres: the Item's fields without slides.
tallerResponse(item) == [f \in DOMAIN item \ {"slides"} |-> item[f]]

\* The request arrives; the synchronous part runs up to the first await.
CreateArrive(r, nombre, descripcion, portada) ==
  /\ Arrives(r)
  /\ reqs' = [reqs EXCEPT ![r] =
       IF createValid(nombre, descripcion, portada)
       THEN [NoReq EXCEPT !.kind = "create", !.tallerId = uuidv4(r), !.nombre = nombre,
                          !.descripcion = descripcion, !.file = portada, !.pc = "upload"]
       ELSE [NoReq EXCEPT !.kind = "create", !.nombre = nombre, !.descripcion = descripcion,
                          !.file = portada, !.pc = "validate", !.status = 400]]
  /\ UNCHANGED <<Talleres, bucket>>

\* A create whose upload resolves without the object being stored.
CreateUploadLost(r) ==
  /\ At(r, "create", "upload")
  /\ reqs' = [reqs EXCEPT ![r].url = Location(portadaKey(reqs[r].tallerId, r)), ![r].pc = "put"]
  /\ UNCHANGED <<Talleres, bucket>>

\* A create that writes the record even though the upload was rejected.
CreateUploadRecordAnyway(r) ==
  /\ At(r, "create", "upload")
  /\ \E ok \in Outcomes :
       IF ok
       THEN LET key == portadaKey(reqs[r].tallerId, r)
            IN /\ bucket' = upload(bucket, key)
               /\ reqs' = [reqs EXCEPT ![r].url = Location(key), ![r].pc = "put"]
               /\ UNCHANGED Talleres
       ELSE /\ reqs' = Catch(r, "S3Error")
            /\ Talleres' = dynamoPut(Talleres, [id |-> reqs[r].tallerId, portadaUrl |-> Null,
                                                slides |-> <<>>])
            /\ UNCHANGED bucket

\* await s3.upload(portadaS3Params).promise()
CreateUpload(r) ==
  /\ At(r, "create", "upload")
  /\ \E ok \in Outcomes :
       IF ok
       THEN LET key == portadaKey(reqs[r].tallerId, r)
            IN /\ bucket' = upload(bucket, key)
               /\ reqs' = [reqs EXCEPT ![r].url = Location(key), ![r].pc = "put"]
       ELSE /\ reqs' = Catch(r, "S3Error")
            /\ UNCHANGED bucket
  /\ UNCHANGED Talleres

\* await dynamoDB.put(tallerParams).promise(); res.status(201)
CreatePut(r) ==
  /\ At(r, "create", "put")
  /\ \E ok \in Outcomes :
       IF ok
       THEN LET item == tallerItem(reqs[r].tallerId, reqs[r].nombre, reqs[r].descripcion,
                                   reqs[r].url, Now(r))
            IN /\ Talleres' = dynamoPut(Talleres, item)
               /\ reqs' = [reqs EXCEPT ![r].status = 201, ![r].body = {tallerResponse(item)}]
       ELSE /\ reqs' = Catch(r, "DynamoError")
            /\ UNCHANGED Talleres
  /\ UNCHANGED bucket

\* ---------------------------------------------------------------- POST /talleres/:tallerId/slides

\* if (!descripcion) 400
slideValid(descripcion) == descripcion # ""

AddSlideArrive(r, tallerId, descripcion, imagen) ==
  /\ Arrives(r)
  /\ tallerId \in KnownIds
  /\ reqs' = [reqs EXCEPT ![r] =
       IF slideValid(descripcion)
       THEN [NoReq EXCEPT !.kind = "addSlide", !.tallerId = tallerId,
                          !.descripcion = descripcion, !.file = imagen, !.pc = "get"]
       ELSE [NoReq EXCEPT !.kind = "addSlide", !.tallerId = tallerId,
                          !.descripcion = descripcion, !.file = imagen,
                          !.pc = "validate", !.status = 400]]
  /\ UNCHANGED <<Talleres, bucket>>

\* An add-slide that uploads the image before it looks the taller up.
AddSlideGetUploadFirst(r) ==
  /\ At(r, "addSlide", "get")
  /\ LET taller == dynamoGet(Talleres, reqs[r].tallerId)
         key == imagenKey(reqs[r].tallerId, r)
     IN /\ bucket' = IF reqs[r].file THEN upload(bucket, key) ELSE bucket
        /\ reqs' = [reqs EXCEPT ![r] =
              IF taller = {}
              THEN [@ EXCEPT !.status = 404]
              ELSE [@ EXCEPT !.item = taller, !.pc = "update",
                             !.url = IF reqs[r].file THEN Location(key) ELSE Null]]
  /\ UNCHANGED Talleres

\* const taller = await dynamoDB.get(...); if (!taller.Item) 404; then if (imagen) ...
AddSlideGet(r) ==
  /\ At(r, "addSlide", "get")
  /\ \E ok \in Outcomes :
       IF ok
       THEN LET taller == dynamoGet(Talleres, reqs[r].tallerId)
            IN reqs' = [reqs EXCEPT ![r] =
                 IF taller = {}
                 THEN [@ EXCEPT !.status = 404]
                 ELSE [@ EXCEPT !.item = taller,
                                !.pc = IF reqs[r].file THEN "upload" ELSE "update"]]
       ELSE reqs' = Catch(r, "DynamoError")
  /\ UNCHANGED <<Talleres, bucket>>

\* An add-slide that still updates the record when its upload is rejected.
AddSlideUploadUpdateAnyway(r) ==
  /\ At(r, "addSlide", "upload")
  /\ \E ok \in Outcomes :
       IF ok
       THEN LET key == imagenKey(reqs[r].tallerId, r)
            IN /\ bucket' = upload(bucket, key)
               /\ reqs' = [reqs EXCEPT ![r].url = Location(key), ![r].pc = "update"]
               /\ UNCHANGED Talleres
       ELSE /\ reqs' = Catch(r, "S3Error")
            /\ Talleres' = dynamoUpdateSet(Talleres, reqs[r].tallerId, <<>>, Now(r))
            /\ UNCHANGED bucket

\* An add-slide that looks the taller up again before it uploads, and gives up
\* with 404 when the record is gone.
AddSlideUploadRecheck(r) ==
  /\ At(r, "addSlide", "upload")
  /\ IF reqs[r].tallerId \in DOMAIN Talleres
     THEN LET key == imagenKey(reqs[r].tallerId, r)
          IN /\ bucket' = upload(bucket, key)
             /\ reqs' = [reqs EXCEPT ![r].url = Location(key), ![r].pc = "update"]
     ELSE /\ reqs' = [reqs EXCEPT ![r].status = 404]
          /\ UNCHANGED bucket
  /\ UNCHANGED Talleres

\* const imagenS3Response = await s3.upload(imagenS3Params).promise(); imagenUrl = Location
AddSlideUpload(r) ==
  /\ At(r, "addSlide", "upload")
  /\ \E ok \in Outcomes :
       IF ok
       THEN LET key == imagenKey(reqs[r].tallerId, r)
            IN /\ bucket' = upload(bucket, key)
               /\ reqs' = [reqs EXCEPT ![r].url = Location(key), ![r].pc = "update"]
       ELSE /\ reqs' = Catch(r, "S3Error")
            /\ UNCHANGED bucket
  /\ UNCHANGED Talleres

\* taller.Item.slides ? taller.Item.slides.length + 1 : 1
pasoNumber(item) == IF "slides" \in DOMAIN item THEN Len(item.slides) + 1 ELSE 1

\* A slide built without its image's URL.
nuevoSlideNoImagen(r, item, descripcion, imagenUrl) ==
  [id |-> uuidv4(r), titulo |-> titulo(pasoNumber(item)), descripcion |-> descripcion,
   imagenUrl |-> Null, createdAt |-> Now(r)]

\* const nuevoSlide = {id, titulo, descripcion, imagenUrl, createdAt}
nuevoSlide(r, item, descripcion, imagenUrl) ==
  [id |-> uuidv4(r), titulo |-> titulo(pasoNumber(item)), descripcion |-> descripcion,
   imagenUrl |-> imagenUrl, createdAt |-> Now(r)]

\* An update that always overwrites the list.
neverListAppend(item) == FALSE

\* if (taller.Item.slides && taller.Item.slides.length > 0): list_append, else SET.
usesListAppend(item) == "slides" \in DOMAIN item /\ Len(item.slides) > 0

\* An update that asks for the item as it was before the update.
returnValuesAllOld(old, new) == old

\* ReturnValues: 'ALL_NEW': Attributes is the item as it is after the update.
returnValues(old, new) == new

\* An add-slide that numbers its slide from the list stored at write time
\* instead of from the snapshot it read.
AddSlideUpdateFresh(r) ==
  /\ At(r, "addSlide", "update")
  /\ reqs[r].tallerId \in DOMAIN Talleres
  /\ LET id == reqs[r].tallerId
         item == Talleres[id]
         slide == nuevoSlide(r, item, reqs[r].descripcion, reqs[r].url)
     IN /\ Talleres' = dynamoUpdateListAppend(Talleres, id, <<slide>>, Now(r))
        /\ reqs' = [reqs EXCEPT ![r].status = 201, ![r].slide = {slide},
                                ![r].body = {Talleres'[id]}]
  /\ UNCHANGED bucket

\* The slide is built from the snapshot read at AddSlideGet, then
\* const updatedTaller = await dynamoDB.update(updateParams).promise(); res.status(201)
AddSlideUpdate(r) ==
  /\ At(r, "addSlide", "update")
  /\ \E ok \in Outcomes :
       LET item == CHOOSE i \in reqs[r].item : TRUE
           id == reqs[r].tallerId
           slide == nuevoSlide(r, item, reqs[r].descripcion, reqs[r].url)
       IN IF ~ok
          THEN /\ reqs' = Catch(r, "DynamoError")
               /\ UNCHANGED Talleres
          ELSE IF usesListAppend(item) /\ ~listAppendValid(Talleres, id)
          THEN /\ reqs' = Catch(r, "ValidationException")
               /\ UNCHANGED Talleres
          ELSE /\ Talleres' = IF usesListAppend(item)
                              THEN dynamoUpdateListAppend(Talleres, id, <<slide>>, Now(r))
                              ELSE dynamoUpdateSet(Talleres, id, <<slide>>, Now(r))
               /\ reqs' = [reqs EXCEPT ![r].status = 201, ![r].slide = {slide},
                                       ![r].body = returnValues(dynamoGet(Talleres, id),
                                                                dynamoGet(Talleres', id))]
  /\ UNCHANGED bucket

\* ---------------------------------------------------------------- DELETE /talleres/:tallerId

DeleteArrive(r, tallerId) ==
  /\ Arrives(r)
  /\ tallerId \in KnownIds
  /\ reqs' = [reqs EXCEPT ![r] = [NoReq EXCEPT !.kind = "delete", !.tallerId = tallerId,
                                               !.pc = "get"]]
  /\ UNCHANGED <<Talleres, bucket>>

\* const taller = await dynamoDB.get(...); if (!taller.Item) 404
DeleteGet(r) ==
  /\ At(r, "delete", "get")
  /\ \E ok \in Outcomes :
       IF ok
       THEN LET taller == dynamoGet(Talleres, reqs[r].tallerId)
            IN reqs' = [reqs EXCEPT ![r] =
                 IF taller = {}
                 THEN [@ EXCEPT !.status = 404]
                 ELSE [@ EXCEPT !.item = taller, !.pc = "list"]]
       ELSE reqs' = Catch(r, "DynamoError")
  /\ UNCHANGED <<Talleres, bucket>>

\* const listedObjects = await s3.listObjectsV2(listParams).promise();
\* if (listedObjects.Contents.length > 0) deleteObjects, else straight to dynamoDB.delete
DeleteList(r) ==
  /\ At(r, "delete", "list")
  /\ \E ok \in Outcomes :
       IF ok
       THEN LET listedObjects == listObjectsV2(bucket, carpetaS3(reqs[r].tallerId))
            IN reqs' = [reqs EXCEPT ![r].listed = listedObjects.Contents,
                                    ![r].truncated = listedObjects.IsTruncated,
                                    ![r].pc = IF listedObjects.Contents # {}
                                              THEN "deleteObjects" ELSE "delete"]
       ELSE reqs' = Catch(r, "S3Error")
  /\ UNCHANGED <<Talleres, bucket>>

\* A delete that removes the record when the bulk deletion is rejected.
DeleteObjectsRecordAnyway(r) ==
  /\ At(r, "delete", "deleteObjects")
  /\ \E ok \in Outcomes :
       IF ok
       THEN /\ bucket' = deleteObjects(bucket, reqs[r].listed)
            /\ reqs' = [reqs EXCEPT ![r].pc = "delete"]
            /\ UNCHANGED Talleres
       ELSE /\ reqs' = Catch(r, "S3Error")
            /\ Talleres' = dynamoDelete(Talleres, reqs[r].tallerId)
            /\ UNCHANGED bucket

\* await s3.deleteObjects(deleteParams).promise(); IsTruncated only logs a warning
DeleteObjects(r) ==
  /\ At(r, "delete", "deleteObjects")
  /\ \E ok \in Outcomes :
       IF ok
       THEN /\ bucket' = deleteObjects(bucket, reqs[r].listed)
            /\ reqs' = [reqs EXCEPT ![r].pc = "delete"]
       ELSE /\ reqs' = Catch(r, "S3Error")
            /\ UNCHANGED bucket
  /\ UNCHANGED Talleres

\* await dynamoDB.delete(...).promise(); res.status(200)
DeleteRecord(r) ==
  /\ At(r, "delete", "delete")
  /\ \E ok \in Outcomes :
       IF ok
       THEN /\ Talleres' = dynamoDelete(Talleres, reqs[r].tallerId)
            /\ reqs' = [reqs EXCEPT ![r].status = 200]
       ELSE /\ reqs' = Catch(r, "DynamoError")
            /\ UNCHANGED Talleres
  /\ UNCHANGED bucket

\* ---------------------------------------------------------------- GET /talleres/:tallerId

\* The response of GET /talleres/:tallerId on table t: 404, or 200 with the Item.
getTaller(t, tallerId) ==
  LET taller == dynamoGet(t, tallerId)
  IN IF taller = {} THEN [status |-> 404, body |-> {}] ELSE [status |-> 200, body |-> taller]

\* The handler has one await (dynamoDB.get), so request and read are one step.
GetTaller(r, tallerId) ==
  /\ Arrives(r)
  /\ tallerId \in KnownIds
  /\ \E ok \in Outcomes :
       LET res == getTaller(Talleres, tallerId)
           req == [NoReq EXCEPT !.kind = "get", !.tallerId = tallerId, !.pc = "get"]
       IN reqs' = [reqs EXCEPT ![r] =
            IF ok THEN [req EXCEPT !.status = res.status, !.body = res.body]
            ELSE [req EXCEPT !.status = 500, !.error = "DynamoError"]]
  /\ UNCHANGED <<Talleres, bucket>>

\* ---------------------------------------------------------------- GET /talleres

\* ProjectionExpression: 'id, nombre, descripcion, duracion, nivelDificultad, portadaUrl, createdAt'
ProjectionExpression ==
  {"id", "nombre", "descripcion", "duracion", "nivelDificultad", "portadaUrl", "createdAt"}

\* dynamoDB.scan with the projection, called once (no LastEvaluatedKey loop): the
\* items of the first scan page, at most ScanPage of them (the table's own order,
\* here by id), each cut down to the projected attributes it has.
dynamoScan(t, projection) ==
  LET page == {id \in DOMAIN t : Cardinality({j \in DOMAIN t : j < id}) < ScanPage}
  IN {[f \in DOMAIN t[id] \cap projection |-> t[id][f]] : id \in page}

\* One await (dynamoDB.scan); res.json(data.Items || [])
GetTalleres(r) ==
  /\ Arrives(r)
  /\ \E ok \in Outcomes :
       LET req == [NoReq EXCEPT !.kind = "list", !.pc = "scan"]
       IN reqs' = [reqs EXCEPT ![r] =
            IF ok THEN [req EXCEPT !.status = 200,
                                   !.body = dynamoScan(Talleres, ProjectionExpression)]
            ELSE [req EXCEPT !.status = 500, !.error = "DynamoError"]]
  /\ UNCHANGED <<Talleres, bucket>>

\* ---------------------------------------------------------------- specification

Arrive(r) ==
  \/ \E n \in Nombres, d \in TallerDescripciones, p \in BOOLEAN : CreateArrive(r, n, d, p)
  \/ \E id \in KnownIds, d \in SlideDescripciones, i \in BOOLEAN : AddSlideArrive(r, id, d, i)
  \/ \E id \in KnownIds : DeleteArrive(r, id)
  \/ \E id \in KnownIds : GetTaller(r, id)
  \/ GetTalleres(r)

Step(r) ==
  \/ CreateUpload(r)
  \/ CreatePut(r)
  \/ AddSlideGet(r)
  \/ AddSlideUpload(r)
  \/ AddSlideUpdate(r)
  \/ DeleteGet(r)
  \/ DeleteList(r)
  \/ DeleteObjects(r)
  \/ DeleteRecord(r)

\* Requests are handled concurrently: any request may arrive, and any request
\* in flight may have its awaited call complete, in any order.
Next == \E r \in Reqs : Arrive(r) \/ Step(r)

Spec == Init /\ [][Next]_vars

\* The same handlers with requests sent one at a time: a request arrives only
\* when every earlier one has been answered.
NextSeq == \E r \in Reqs : (InFlight = {} /\ Arrive(r)) \/ Step(r)

SpecSeq == Init /\ [][NextSeq]_vars

\* AddSlide requests racing on one taller: the table holds a taller as
\* POST /talleres leaves it (cover uploaded, slides = []), and MaxAdds
\* POST /talleres/:tallerId/slides requests arrive, handled concurrently.
InitSlides ==
  /\ Talleres = (0 :> tallerItem(0, "n", "d", Location(portadaKey(0, 0)), Now(0)))
  /\ bucket = {portadaKey(0, 0)}
  /\ reqs = [r \in 1..MaxAdds |-> NoReq]

NextSlides ==
  \E r \in Reqs :
    \/ \E d \in SlideDescripciones, i \in BOOLEAN : AddSlideArrive(r, 0, d, i)
    \/ AddSlideGet(r)
    \/ AddSlideUpload(r)
    \/ AddSlideUpdate(r)

SpecSlides == InitSlides /\ [][NextSlides]_vars

\* The same race with one more request: the shortest runs in which a list that one
\* request read at length 2 is overwritten by another before the first one appends.
InitSlidesLong ==
  /\ Talleres = (0 :> tallerItem(0, "n", "d", Location(portadaKey(0, 0)), Now(0)))
  /\ bucket = {portadaKey(0, 0)}
  /\ reqs = [r \in 1..(MaxAdds + 1) |-> NoReq]

SpecSlidesLong == InitSlidesLong /\ [][NextSlides]_vars

\* ---------------------------------------------------------------- properties

OfKind(kind) == {r \in Started : reqs[r].kind = kind}
Done(r) == reqs[r].status # 0
Min(a, b) == IF a <= b THEN a ELSE b
IsPrefix(s, t) == Len(s) <= Len(t) /\ SubSeq(t, 1, Len(s)) = s
Snapshot(r) == CHOOSE i \in reqs[r].item : TRUE

\* The requests other than r1 and r2 that write taller id (its slides or its record).
OtherWriters(id, r1, r2) ==
  {q \in (OfKind("addSlide") \cup OfKind("delete")) \ {r1, r2} : reqs[q].tallerId = id}

\* C1: two AddSlide requests for the same taller, with no other writer of it and no
\* rejected storage call, both answer 201 and leave the stored slides exactly 2
\* longer than before the two started, whatever the interleaving.
C1_NoLostUpdate ==
  \A r1, r2 \in OfKind("addSlide") :
    ( /\ r1 < r2
      /\ reqs[r1].tallerId = reqs[r2].tallerId
      /\ reqs[r1].item # {} /\ reqs[r2].item # {}
      /\ Done(r1) /\ Done(r2)
      /\ reqs[r1].error = "" /\ reqs[r2].error = ""
      /\ OtherWriters(reqs[r1].tallerId, r1, r2) = {} )
    => /\ reqs[r1].status = 201 /\ reqs[r2].status = 201
       /\ reqs[r1].tallerId \in DOMAIN Talleres
       /\ Len(Talleres[reqs[r1].tallerId].slides)
            = Min(Len(Snapshot(r1).slides), Len(Snapshot(r2).slides)) + 2

\* C2: every step that changes the stored slides of a taller that stays in the
\* table leaves the previous list as a prefix of the new one.
C2_AppendOnly ==
  [][\A id \in DOMAIN Talleres \cap DOMAIN Talleres' :
       IsPrefix(Talleres[id].slides, Talleres'[id].slides)]_vars

\* C3: the append write of AddSlide against an absent record creates no record and
\* is not answered 201; so a record a DeleteWorkshop removed never reappears.
C3_AddSlideNeverCreates ==
  [][\A r \in Reqs :
       ( /\ At(r, "addSlide", "update")
         /\ reqs'[r] # reqs[r]
         /\ reqs[r].tallerId \notin DOMAIN Talleres )
       => /\ reqs[r].tallerId \notin DOMAIN Talleres'
          /\ reqs'[r].status # 201]_vars

\* The cover of the record of taller id is in the bucket.
CoverPresent(id) ==
  /\ "portadaUrl" \in DOMAIN Talleres[id]
  /\ KeyOfLocation(Talleres[id].portadaUrl) \in bucket

\* A DeleteWorkshop for id has had its bulk deletion of the listed keys done.
Purged(id) ==
  \E r \in OfKind("delete") :
    reqs[r].tallerId = id /\ reqs[r].pc = "delete" /\ reqs[r].listed # {}

\* C4 as stated: in every reachable state every record has its cover in the bucket.
C4_CoverAlwaysPresent == \A id \in DOMAIN Talleres : CoverPresent(id)

\* C4 amended: every record written by CreateWorkshop has its cover in the bucket
\* for as long as no DeleteWorkshop for that id has bulk-deleted its listed blobs.
C4_CoverPresentUntilPurged ==
  \A id \in DOMAIN Talleres :
    ("portadaUrl" \in DOMAIN Talleres[id] /\ ~Purged(id)) => CoverPresent(id)

C4_Witness ==
  \E id \in DOMAIN Talleres :
    /\ CoverPresent(id) /\ ~Purged(id)
    /\ \E r \in OfKind("delete") : reqs[r].tallerId = id /\ reqs[r].status = 500
    /\ \E r \in OfKind("addSlide") : reqs[r].tallerId = id /\ reqs[r].status = 201

\* r's listing step succeeds in this step.
Lists(r) == At(r, "delete", "list") /\ reqs'[r].pc \in {"deleteObjects", "delete"}
\* r's DeleteWorkshop is answered 200 in this step.
Deletes(r) == At(r, "delete", "delete") /\ reqs'[r].status = 200

\* What a DeleteWorkshop answered 200 leaves: none of the keys it listed, no record,
\* and a GET of the id answering 404.
DeletedAll(r) ==
  /\ reqs[r].listed \cap bucket' = {}
  /\ reqs[r].tallerId \notin DOMAIN Talleres'
  /\ getTaller(Talleres', reqs[r].tallerId).status = 404

C6_FailedDeleteKeepsRecord ==
  \A r \in OfKind("delete") :
    (reqs[r].pc \in {"list", "deleteObjects"} /\ Done(r))
    => /\ reqs[r].status = 500
       /\ (\A q \in OfKind("delete") \ {r} :
             ~(reqs[q].tallerId = reqs[r].tallerId /\ reqs[q].pc = "delete"))
          => reqs[r].tallerId \in DOMAIN Talleres

C6_Witness ==
  \E r \in OfKind("delete") :
    /\ reqs[r].pc = "deleteObjects" /\ reqs[r].status = 500
    /\ reqs[r].tallerId \in DOMAIN Talleres
    /\ reqs[r].listed \subseteq bucket

\* r is a POST /talleres lacking nombre, descripcion or portada.
InvalidCreate(r) ==
  /\ reqs[r].kind = "create"
  /\ (reqs[r].nombre = "" \/ reqs[r].descripcion = "" \/ ~reqs[r].file)

\* C7: a CreateWorkshop lacking nombre, descripcion or portada is answered 400 on
\* arrival with both stores unchanged, and never stores a blob or a record.
C7_InvalidCreateTouchesNothing ==
  [][\A r \in Reqs :
       /\ (Arrives(r) /\ InvalidCreate(r)')
            => (reqs'[r].status = 400 /\ Talleres' = Talleres /\ bucket' = bucket)
       /\ InvalidCreate(r)
            => /\ reqs'[r] = reqs[r]
               /\ KeysUnder(bucket', carpetaS3(uuidv4(r))) = {}
               /\ uuidv4(r) \notin DOMAIN Talleres']_vars

C7_Witness ==
  /\ \E r \in OfKind("create") : reqs[r].status = 400 /\ ~reqs[r].file /\ reqs[r].nombre # ""
  /\ \E r \in OfKind("create") : reqs[r].status = 400 /\ reqs[r].file /\ reqs[r].nombre = ""
  /\ \E r \in OfKind("create") : reqs[r].status = 400 /\ reqs[r].file /\ reqs[r].descripcion = ""

\* C8: a record of CreateWorkshop is in the table only after its cover upload
\* resolved (the record holds the uploaded Location), and a CreateWorkshop whose
\* upload is rejected answers 500 and writes no record.
C8_UploadBeforeRecord ==
  \A r \in OfKind("create") :
    /\ reqs[r].pc = "upload" => reqs[r].tallerId \notin DOMAIN Talleres
    /\ (reqs[r].pc = "upload" /\ Done(r)) => reqs[r].status = 500
    /\ reqs[r].tallerId \in DOMAIN Talleres
         => /\ reqs[r].url = Location(portadaKey(reqs[r].tallerId, r))
            /\ "portadaUrl" \in DOMAIN Talleres[reqs[r].tallerId]
                 => Talleres[reqs[r].tallerId].portadaUrl = reqs[r].url

C8_Witness ==
  /\ \E r \in OfKind("create") : reqs[r].pc = "upload" /\ reqs[r].status = 500
  /\ \E r \in OfKind("create") : reqs[r].status = 201 /\ reqs[r].tallerId \in DOMAIN Talleres

\* C9: an AddSlide (with a descripcion) whose lookup finds no record is answered
\* 404 with both stores unchanged, and never uploads its image.
C9_AddSlideNotFound ==
  [][\A r \in Reqs :
       /\ ( /\ At(r, "addSlide", "get")
            /\ reqs'[r] # reqs[r]
            /\ reqs'[r].error = ""
            /\ reqs[r].tallerId \notin DOMAIN Talleres )
          => (reqs'[r].status = 404 /\ Talleres' = Talleres /\ bucket' = bucket)
       /\ (reqs[r].kind = "addSlide" /\ reqs[r].status = 404)
          => /\ reqs'[r] = reqs[r]
             /\ imagenKey(reqs[r].tallerId, r) \notin bucket']_vars

C9_Witness ==
  \E r \in OfKind("addSlide") : reqs[r].status = 404 /\ reqs[r].file

\* The i-th smallest element of the set S of numbers.
Nth(S, i) == CHOOSE r \in S : Cardinality({q \in S : q < r}) = i - 1

\* The AddSlide requests for taller id answered 201.
Added(id) == {r \in OfKind("addSlide") : reqs[r].tallerId = id /\ reqs[r].status = 201}

\* C10: with requests sent one at a time, the stored slides of a taller are the
\* slides of its N successful AddSlide requests in request order, the i-th one
\* titled "Paso i".
C10_SequentialTitles ==
  \A id \in DOMAIN Talleres :
    /\ Len(Talleres[id].slides) = Cardinality(Added(id))
    /\ \A i \in 1..Len(Talleres[id].slides) :
         /\ reqs[Nth(Added(id), i)].slide = {Talleres[id].slides[i]}
         /\ Talleres[id].slides[i].id = uuidv4(Nth(Added(id), i))
         /\ Talleres[id].slides[i].titulo = titulo(i)

C10_Witness ==
  \E id \in DOMAIN Talleres :
    /\ Len(Talleres[id].slides) = 2
    /\ Talleres[id].slides[2].titulo = titulo(2)

\* ---------------------------------------------------------------- properties, continued

Last(s) == s[Len(s)]
\* r takes a step in which no storage call of its own is rejected.
Proceeds(r) == reqs'[r] # reqs[r] /\ reqs'[r].error = ""
\* r's append write succeeds (201) in this step.
Appends(r) == At(r, "addSlide", "update") /\ reqs'[r].status = 201

\* A DeleteWorkshop for id has got as far as its record delete.
Deleting(id) == \E q \in OfKind("delete") : reqs[q].tallerId = id /\ reqs[q].pc = "delete"

\* C11: after a successful CreateWorkshop and before any AddSlide (or delete) for
\* the new id, GET /talleres/:tallerId answers 200 with slides = [], and so did
\* every such GET already answered.
C11_FreshTallerHasNoSlides ==
  \A r \in OfKind("create") :
    (reqs[r].status = 201 /\ Added(reqs[r].tallerId) = {} /\ ~Deleting(reqs[r].tallerId))
    => /\ getTaller(Talleres, reqs[r].tallerId).status = 200
       /\ \A b \in getTaller(Talleres, reqs[r].tallerId).body :
            "slides" \in DOMAIN b /\ b.slides = <<>>
       /\ \A g \in OfKind("get") :
            (reqs[g].tallerId = reqs[r].tallerId /\ reqs[g].status = 200)
            => \A b \in reqs[g].body : "slides" \in DOMAIN b /\ b.slides = <<>>

C11_Witness ==
  \E r \in OfKind("create"), g \in OfKind("get") :
    /\ reqs[r].status = 201 /\ reqs[g].tallerId = reqs[r].tallerId
    /\ reqs[g].status = 200
    /\ \E b \in reqs[g].body : b.slides = <<>>

\* C12: when an AddSlide is answered 201, the slide it put at the end of the stored
\* list is the slide of its response: its id is the generated one, its descripcion
\* the one sent, and its imagenUrl is null exactly when no image was sent (then no
\* blob was uploaded), else the uploaded Location.
C12_StoredSlideIsReturned ==
  [][\A r \in Reqs :
       Appends(r) =>
         LET id == reqs[r].tallerId
         IN /\ id \in DOMAIN Talleres'
            /\ Len(Talleres'[id].slides) > 0
            /\ reqs'[r].slide = {Last(Talleres'[id].slides)}
            /\ Last(Talleres'[id].slides).id = uuidv4(r)
            /\ Last(Talleres'[id].slides).descripcion = reqs[r].descripcion
            /\ (Last(Talleres'[id].slides).imagenUrl = Null) <=> ~reqs[r].file
            /\ ~reqs[r].file => imagenKey(id, r) \notin bucket'
            /\ reqs[r].file
                 => Last(Talleres'[id].slides).imagenUrl = Location(imagenKey(id, r))]_vars

C12_Witness ==
  \E r1, r2 \in OfKind("addSlide") :
    /\ reqs[r1].status = 201 /\ reqs[r1].file
    /\ reqs[r2].status = 201 /\ ~reqs[r2].file
    /\ \E sl \in reqs[r1].slide : sl.imagenUrl # Null
    /\ \E sl \in reqs[r2].slide :
         /\ sl.imagenUrl = Null
         /\ reqs[r2].tallerId \in DOMAIN Talleres
         /\ Last(Talleres[reqs[r2].tallerId].slides) = sl

\* C13: a GET /talleres answered 200 returns no element with a slides field and
\* one element per record of the table, whatever the table holds.
C13_ListOnePerRecordNoSlides ==
  [][\A r \in Reqs :
       (Arrives(r) /\ reqs'[r].kind = "list" /\ reqs'[r].status = 200)
       => /\ \A x \in reqs'[r].body : "slides" \notin DOMAIN x
          /\ Cardinality(reqs'[r].body) = Cardinality(DOMAIN Talleres)]_vars

\* C14: an AddSlide whose image upload is rejected answers 500 and never updates
\* the record: no stored list holds its slide and no record carries its updatedAt.
C14_FailedUploadLeavesRecord ==
  \A r \in OfKind("addSlide") :
    (reqs[r].pc = "upload" /\ Done(r))
    => /\ reqs[r].status = 500
       /\ reqs[r].slide = {}
       /\ \A id \in DOMAIN Talleres :
            /\ \A i \in 1..Len(Talleres[id].slides) : Talleres[id].slides[i].id # uuidv4(r)
            /\ "updatedAt" \in DOMAIN Talleres[id] => Talleres[id].updatedAt # Now(r)

C14_Witness ==
  \E r \in OfKind("addSlide") :
    /\ reqs[r].pc = "upload" /\ reqs[r].status = 500
    /\ reqs[r].tallerId \in DOMAIN Talleres
    /\ Talleres[reqs[r].tallerId] \in reqs[r].item

\* C15: the taller in the 201 response of AddSlide is the whole record as the
\* table holds it right after the append, and its last slide is the response's
\* slide, under any interleaving.
C15_ReturnsStoredRecord ==
  [][\A r \in Reqs :
       Appends(r) =>
         /\ reqs[r].tallerId \in DOMAIN Talleres'
         /\ reqs'[r].body = {Talleres'[reqs[r].tallerId]}
         /\ \A b \in reqs'[r].body : reqs'[r].slide = {Last(b.slides)}]_vars

C15_Witness ==
  \E r \in OfKind("addSlide") :
    /\ reqs[r].status = 201
    /\ \E b \in reqs[r].body :
         /\ Len(b.slides) = 2
         /\ "portadaUrl" \in DOMAIN b
         /\ reqs[r].slide = {b.slides[2]}

\* C16: a DeleteWorkshop whose listing was truncated goes on: its bulk deletion
\* removes the listed keys and nothing else, and its record delete answers 200
\* with the listed keys and the record gone, while the keys it did not list stay
\* in the bucket (unless another DeleteWorkshop for the id listed them).
C16_TruncatedDeleteStillSucceeds ==
  [][\A r \in Reqs :
       /\ (At(r, "delete", "deleteObjects") /\ Proceeds(r) /\ reqs[r].truncated)
          => /\ reqs'[r].pc = "delete" /\ reqs'[r].status = 0
             /\ bucket' = bucket \ reqs[r].listed
       /\ (At(r, "delete", "delete") /\ Proceeds(r) /\ reqs[r].truncated)
          => /\ reqs'[r].status = 200
             /\ reqs[r].listed \cap bucket' = {}
             /\ reqs[r].tallerId \notin DOMAIN Talleres'
             /\ (\A q \in OfKind("delete") \ {r} :
                   reqs[q].tallerId = reqs[r].tallerId => reqs[q].listed = {})
                => KeysUnder(bucket', carpetaS3(reqs[r].tallerId)) # {}]_vars

C16_Witness ==
  \E r \in OfKind("delete") :
    /\ reqs[r].status = 200 /\ reqs[r].truncated
    /\ reqs[r].listed \cap bucket = {}
    /\ KeysUnder(bucket, carpetaS3(reqs[r].tallerId)) # {}
    /\ reqs[r].tallerId \notin DOMAIN Talleres

\* C17: the slide an AddSlide appends is numbered from the snapshot the request
\* read (snapshot length + 1), whatever the stored list is at write time; so two
\* racing AddSlide requests can leave two slides with the same number at
\* different positions of the list (the witness).
C17_TitleFromSnapshot ==
  [][\A r \in Reqs :
       Appends(r) =>
         /\ \A sl \in reqs'[r].slide : sl.titulo = titulo(Len(Snapshot(r).slides) + 1)
         /\ reqs'[r].slide = {Last(Talleres'[reqs[r].tallerId].slides)}]_vars

C17_Witness ==
  \E id \in DOMAIN Talleres :
    \E i, j \in 1..Len(Talleres[id].slides) :
      /\ i < j
      /\ Talleres[id].slides[i].titulo = Talleres[id].slides[j].titulo
      /\ Talleres[id].slides[i].id # Talleres[id].slides[j].id
      /\ InFlight = {}

\* C18: an AddSlide that passed its existence check uploads its image without
\* looking the record up again, also when the record has been deleted meanwhile;
\* so the image can be left under the prefix of a deleted taller (the witness).
C18_UploadsWithoutRecheck ==
  [][\A r \in Reqs :
       (At(r, "addSlide", "upload") /\ Proceeds(r))
       => /\ imagenKey(reqs[r].tallerId, r) \in bucket'
          /\ reqs'[r].pc = "update"
          /\ Talleres' = Talleres]_vars

C18_Witness ==
  \E r \in OfKind("addSlide"), d \in OfKind("delete") :
    /\ reqs[d].tallerId = reqs[r].tallerId
    /\ reqs[r].item # {}
    /\ InFlight = {}
    /\ reqs[d].status = 200 /\ ~reqs[d].truncated
    /\ imagenKey(reqs[r].tallerId, r) \in bucket
    /\ imagenKey(reqs[r].tallerId, r) \notin reqs[d].listed
    /\ reqs[r].tallerId \notin DOMAIN Talleres

\* C19: in every reachable state the number in the title of every stored slide is
\* at most the slide's 1-based position in its list.
C19_TitleAtMostPosition ==
  \A id \in DOMAIN Talleres :
    \A i \in 1..Len(Talleres[id].slides) : Talleres[id].slides[i].titulo[2] <= i

\* The attributes of an Item other than slides and updatedAt.
Rest(item) == [f \in DOMAIN item \ {"slides", "updatedAt"} |-> item[f]]

\* C20: an AddSlide answered 201 changes only slides and updatedAt of its taller's
\* record: the table holds the same ids, every other record is untouched, the
\* target keeps its other attributes, and every record's carpetaS3 is the prefix
\* of its id.
C20_AddSlideFrame ==
  [][\A r \in Reqs :
       Appends(r) =>
         /\ DOMAIN Talleres' = DOMAIN Talleres
         /\ \A id \in DOMAIN Talleres' :
              /\ id \in DOMAIN Talleres
              /\ id # reqs[r].tallerId => Talleres'[id] = Talleres[id]
              /\ Rest(Talleres'[id]) = Rest(Talleres[id])
              /\ "carpetaS3" \in DOMAIN Talleres'[id]
              /\ Talleres'[id].carpetaS3 = carpetaS3(id)]_vars

\* r is a DeleteWorkshop request taking one of its steps, the arrival included.
DeleteSteps(r) ==
  /\ reqs'[r] # reqs[r]
  /\ reqs'[r].kind = "delete"

\* C21: no step of a DELETE /talleres/:tallerId removes a blob outside the prefix
\* of its id or adds one, and none removes, adds or modifies the record of another
\* id: the records and blobs of every other taller are as they were.
C21_DeleteTouchesOnlyItsTaller ==
  [][\A r \in Reqs :
       DeleteSteps(r) =>
         LET id == reqs'[r].tallerId
         IN /\ bucket' \subseteq bucket
            /\ \A k \in bucket \ bucket' : HasPrefix(k, carpetaS3(id))
            /\ DOMAIN Talleres' \subseteq DOMAIN Talleres
            /\ DOMAIN Talleres \ DOMAIN Talleres' \subseteq {id}
            /\ \A o \in DOMAIN Talleres \ {id} :
                 /\ Talleres'[o] = Talleres[o]
                 /\ KeysUnder(bucket', carpetaS3(o)) = KeysUnder(bucket, carpetaS3(o))]_vars

C21_Witness ==
  \E r \in OfKind("delete") :
    /\ reqs[r].status = 200
    /\ reqs[r].listed # {} /\ reqs[r].listed \cap bucket = {}
    /\ reqs[r].tallerId \notin DOMAIN Talleres
    /\ \E o \in DOMAIN Talleres :
         /\ o # reqs[r].tallerId
         /\ KeysUnder(bucket, carpetaS3(o)) # {}
         /\ KeyOfLocation(Talleres[o].portadaUrl) \in bucket

====
